---- MODULE Spec2Model ----
(***************************************************************************)
(* A model of src/trie.py: the Trie class (a nested-dict prefix tree with  *)
(* an END marker, a word count and the class-level ACCENTED dictionary)    *)
(* and its operations.                                                     *)
(*                                                                         *)
(* A character is its Unicode code point, a word is a sequence of code     *)
(* points (a Python str).  A dict of the tree is named by the path of keys *)
(* that leads to it from self.words; a store's tree is the set of paths of *)
(* its dicts (nodes) and the mapping from the paths of the dicts that hold *)
(* the "END" key to the value stored under it (END).                       *)
(***************************************************************************)
EXTENDS Integers, Sequences, FiniteSets, TLC

VARIABLES
    words,      \* store -> [nodes, END]: self.words of every constructed Trie
    size,       \* store -> self.size
    ACCENTED,   \* the class attribute Trie.ACCENTED: base char -> set of chars
    inserted,   \* store -> the lines of the word list that load has read so far
    ret         \* the last call: method, store, argument, raised?, returned value

vars == <<words, size, ACCENTED, inserted, ret>>

(***************************************************************************)
(* Characters.  The code points the model draws words from:                *)
(*   49 '1', 63 '?', 69 'E', 101 'e', 201 E-acute, 233 e-acute,            *)
(*   769 COMBINING ACUTE ACCENT, and the ASCII lowercase letters.          *)
(***************************************************************************)
isascii(word) == \A i \in 1..Len(word) : word[i] < 128

\* str.islower / str.isupper / str.upper / str.lower on one character
IsLowerChar(c) == c \in 97..122 \/ c = 233
IsUpperChar(c) == c \in 65..90 \/ c = 201
UpperChar(c) == c - 32
LowerChar(c) == c + 32

swapcase(ch) ==
    IF IsLowerChar(ch) THEN UpperChar(ch)
    ELSE IF IsUpperChar(ch) THEN LowerChar(ch)
    ELSE ch

\* Unicode data for the modelled code points: the canonical combining class,
\* the decomposition mapping and the primary composite of a pair (0: none).
CombiningClass(c) == IF c = 769 THEN 230 ELSE 0

Decomposition(c) ==
    IF c = 233 THEN <<101, 769>>
    ELSE IF c = 201 THEN <<69, 769>>
    ELSE <<c>>

Composite(a, b) ==
    IF a = 101 /\ b = 769 THEN 233
    ELSE IF a = 69 /\ b = 769 THEN 201
    ELSE 0

\* unicodedata.normalize("NFKD", word)
RECURSIVE denormalize(_)
denormalize(word) ==
    IF word = <<>> THEN <<>>
    ELSE Decomposition(Head(word)) \o denormalize(Tail(word))

\* The canonical composition pass of NFKC over a decomposed word: a character
\* combines with the last starter unless a character in between blocks it.
RECURSIVE ComposeFrom(_, _, _, _)
ComposeFrom(out, starter, lastClass, rest) ==
    IF rest = <<>> THEN out
    ELSE LET ch == Head(rest)
             cc == CombiningClass(ch)
             comp == IF starter = 0 THEN 0 ELSE Composite(out[starter], ch)
         IN  IF comp # 0 /\ (lastClass < cc \/ lastClass = 0)
             THEN ComposeFrom([out EXCEPT ![starter] = comp], starter,
                              lastClass, Tail(rest))
             ELSE ComposeFrom(Append(out, ch),
                              IF cc = 0 THEN Len(out) + 1 ELSE starter,
                              cc, Tail(rest))

NFKC(word) == ComposeFrom(<<>>, 0, 0, denormalize(word))

normalize(word) == IF isascii(word) THEN word ELSE NFKC(word)

(***************************************************************************)
(* The tree.                                                               *)
(***************************************************************************)
Stores == {1, 2}

\* The values stored under END: True (the default of _insert) and a payload.
Values == {"True", "world"}

\* self.words = {} ; self.size = 0
EmptyTrie == [nodes |-> {<<>>}, END |-> [p \in {} |-> "True"]]

\* The fresh {} that _entry returns when a letter is missing: no dict of the tree.
EmptyDict == <<-1>>

\* `self.END in curr`
HasEND_anynode(self, curr) == curr \in words[self].nodes

HasEND(self, curr) == curr \in DOMAIN words[self].END

\* the keys of curr other than END
Letters(self, curr) ==
    {p[Len(p)] : p \in {q \in words[self].nodes :
                          Len(q) = Len(curr) + 1 /\ SubSeq(q, 1, Len(curr)) = curr}}

RECURSIVE Walk(_, _, _)
Walk(self, curr, rest) ==
    IF rest = <<>> THEN curr
    ELSE IF Head(rest) \in Letters(self, curr)
         THEN Walk(self, Append(curr, Head(rest)), Tail(rest))
         ELSE EmptyDict

_entry(self, word) == Walk(self, <<>>, word)

\* self.ACCENTED: no instance ever binds the name, so every store reads the
\* class attribute
AccentIndex(self) == ACCENTED

\* lines 80-86: the accent index after one letter of an inserted word
AccentsAfterLetter(acc, letter) ==
    IF ~isascii(<<letter>>) /\ Len(denormalize(<<letter>>)) > 1
    THEN LET base == denormalize(<<letter>>)[1]
             old == IF base \in DOMAIN acc THEN acc[base] ELSE {}
         IN  [b \in DOMAIN acc \cup {base} |->
                 IF b = base THEN old \cup {letter} ELSE acc[b]]
    ELSE acc

RECURSIVE AccentsAfter(_, _)
AccentsAfter(acc, word) ==
    IF word = <<>> THEN acc
    ELSE AccentsAfter(AccentsAfterLetter(acc, Head(word)), Tail(word))

\* the dicts on the path of a word, created where missing (lines 87-91)
Path(word) == {SubSeq(word, 1, k) : k \in 0..Len(word)}

SizeAfterInsert_always(self, word) == size[self] + 1

\* lines 92-93
SizeAfterInsert(self, word) ==
    IF HasEND(self, word) THEN size[self] ELSE size[self] + 1

_insert(self, word, value) ==
    LET w == normalize(word)
        tree == words[self]
    IN  /\ ACCENTED' = AccentsAfter(ACCENTED, w)
        /\ size' = [size EXCEPT ![self] = SizeAfterInsert(self, w)]
        /\ words' = [words EXCEPT ![self] =
                        [nodes |-> tree.nodes \cup Path(w),
                         END |-> [p \in DOMAIN tree.END \cup {w} |->
                                     IF p = w THEN value ELSE tree.END[p]]]]

\* `del curr[self.END]` on the dict at path curr
DelEND(self, curr) ==
    [words EXCEPT ![self].END = [p \in DOMAIN @ \ {curr} |-> @[p]]]

\* How a mutating call ended (it returns nothing a caller reads, or raises),
\* and what a query was asked and what it answered.
Returned(op, self, raised, out) ==
    [op |-> op, self |-> self, word |-> <<>>, raised |-> raised, out |-> out]

Answered(op, self, word, raised, out) ==
    [op |-> op, self |-> self, word |-> word, raised |-> raised, out |-> out]

\* the methods that insert, and those that remove
Inserts == {"iadd", "setitem", "load"}
Removals == {"isub", "delitem"}

(***************************************************************************)
(* Operations of the store.  A query leaves the store as it is; every call *)
(* leaves in ret what it was and how it ended.                             *)
(***************************************************************************)
__init__(self) ==
    /\ self \notin DOMAIN words
    /\ words' = words @@ (self :> EmptyTrie)
    /\ size' = size @@ (self :> 0)
    /\ inserted' = inserted @@ (self :> {})
    /\ ret' = Returned("init", self, FALSE, "None")
    /\ UNCHANGED ACCENTED

__iadd__(self, word) ==
    /\ self \in DOMAIN words
    /\ _insert(self, word, "True")
    /\ ret' = Returned("iadd", self, FALSE, "None")
    /\ UNCHANGED inserted

__setitem__(self, key, value) ==
    /\ self \in DOMAIN words
    /\ _insert(self, key, value)
    /\ ret' = Returned("setitem", self, FALSE, "None")
    /\ UNCHANGED inserted

\* one line of load's file: `self += line.strip()`
load(self, line) ==
    /\ self \in DOMAIN words
    /\ _insert(self, line, "True")
    /\ inserted' = [inserted EXCEPT ![self] = @ \cup {line}]
    /\ ret' = Returned("load", self, FALSE, "None")

__isub__(self, word) ==
    /\ self \in DOMAIN words
    /\ LET curr == _entry(self, word)
       IN  IF HasEND(self, curr)
           THEN /\ size' = [size EXCEPT ![self] = @ - 1]
                /\ words' = DelEND(self, curr)
           ELSE UNCHANGED <<size, words>>
    /\ ret' = Returned("isub", self, FALSE, "None")
    /\ UNCHANGED <<ACCENTED, inserted>>

\* `del curr[self.END]` raises KeyError before self.size is touched
__delitem__(self, word) ==
    /\ self \in DOMAIN words
    /\ LET curr == _entry(self, word)
       IN  IF HasEND(self, curr)
           THEN /\ words' = DelEND(self, curr)
                /\ size' = [size EXCEPT ![self] = @ - 1]
                /\ ret' = Returned("delitem", self, FALSE, "None")
           ELSE /\ UNCHANGED <<size, words>>
                /\ ret' = Returned("delitem", self, TRUE, "KeyError")
    /\ UNCHANGED <<ACCENTED, inserted>>

\* what `word in trie` evaluates to
Contains(self, word) == HasEND(self, _entry(self, word))

__contains__(self, word) ==
    /\ self \in DOMAIN words
    /\ ret' = Answered("contains", self, word, FALSE, Contains(self, word))
    /\ UNCHANGED <<words, size, ACCENTED, inserted>>

\* what `trie[word]` evaluates to: the value, or the KeyError of curr[self.END]
GetItem(self, word) ==
    LET curr == _entry(self, word)
    IN  IF HasEND(self, curr)
        THEN [raised |-> FALSE, out |-> words[self].END[curr]]
        ELSE [raised |-> TRUE, out |-> "KeyError"]

__getitem__(self, word) ==
    /\ self \in DOMAIN words
    /\ ret' = Answered("getitem", self, word, GetItem(self, word).raised,
                       GetItem(self, word).out)
    /\ UNCHANGED <<words, size, ACCENTED, inserted>>

get(self, word, default) ==
    /\ self \in DOMAIN words
    /\ LET curr == _entry(self, word)
       IN  ret' = Answered("get", self, word, FALSE,
                           IF HasEND(self, curr) THEN words[self].END[curr]
                           ELSE default)
    /\ UNCHANGED <<words, size, ACCENTED, inserted>>

__len__(self) ==
    /\ self \in DOMAIN words
    /\ ret' = Answered("len", self, <<>>, FALSE, size[self])
    /\ UNCHANGED <<words, size, ACCENTED, inserted>>

(***************************************************************************)
(* Traversals.  A generator is the sequence of what it yields.             *)
(***************************************************************************)
Min(S) == CHOOSE x \in S : \A y \in S : x <= y
Max(S) == CHOOSE x \in S : \A y \in S : x >= y

RECURSIVE sorted_descending(_)
sorted_descending(S) ==
    IF S = {} THEN <<>> ELSE <<Max(S)>> \o sorted_descending(S \ {Max(S)})

\* sorted(curr) without END: the letters in increasing code point order
RECURSIVE sorted(_)
sorted(S) == IF S = {} THEN <<>> ELSE <<Min(S)>> \o sorted(S \ {Min(S)})

RECURSIVE _keys(_, _, _)
RECURSIVE KeysOfChildren(_, _, _, _)
KeysOfChildren(self, prefix, curr, chs) ==
    IF chs = <<>> THEN <<>>
    ELSE _keys(self, Append(prefix, Head(chs)), Append(curr, Head(chs)))
            \o KeysOfChildren(self, prefix, curr, Tail(chs))

_keys(self, prefix, curr) ==
    (IF HasEND(self, curr) THEN <<prefix>> ELSE <<>>)
        \o KeysOfChildren(self, prefix, curr, sorted(Letters(self, curr)))

__iter__(self) ==
    /\ self \in DOMAIN words
    /\ ret' = Answered("iter", self, <<>>, FALSE, _keys(self, <<>>, <<>>))
    /\ UNCHANGED <<words, size, ACCENTED, inserted>>

\* self.ACCENTED[ch] as the loop of line 384 visits it.  A Python set has no
\* order of its own; no base of the modelled characters has two variants.
AccentsOf(ch) == IF ch \in DOMAIN ACCENTED THEN sorted(ACCENTED[ch]) ELSE <<>>

RECURSIVE _search(_, _, _, _)
RECURSIVE SearchChildren(_, _, _, _, _)
\* the matches below the children chs of curr that exist, in the order of chs
SearchChildren(self, prefix, key, curr, chs) ==
    IF chs = <<>> THEN <<>>
    ELSE (IF Head(chs) \in Letters(self, curr)
          THEN _search(self, Append(prefix, Head(chs)), key,
                       Append(curr, Head(chs)))
          ELSE <<>>)
            \o SearchChildren(self, prefix, key, curr, Tail(chs))

_search(self, prefix, key, curr) ==
    IF key = <<>>
    THEN IF HasEND(self, curr) THEN <<prefix>> ELSE <<>>
    ELSE IF key[1] = 63
         THEN SearchChildren(self, prefix, Tail(key), curr,
                             sorted(Letters(self, curr)))
         ELSE SearchChildren(self, prefix, Tail(key), curr, <<key[1]>>)
                \o SearchChildren(self, prefix, Tail(key), curr,
                                  <<swapcase(key[1])>>)
                \o SearchChildren(self, prefix, Tail(key), curr,
                                  AccentsOf(key[1]))

search(self, key) ==
    /\ self \in DOMAIN words
    /\ ret' = Answered("search", self, key, FALSE, _search(self, <<>>, key, <<>>))
    /\ UNCHANGED <<words, size, ACCENTED, inserted>>

\* line 407: the cost beyond which _spellcheck gives up
MaxDiff == 3

\* line 426: a substitution that costs 1
IsVariant(expect, ch) ==
    swapcase(expect) = ch
        \/ (expect \in DOMAIN ACCENTED /\ ch \in ACCENTED[expect])

\* The generator _spellcheck as the set of the (diff, word) pairs it yields:
\* its callers keep the least diff of each word, whatever the order.
RECURSIVE _spellcheck(_, _, _, _, _)
_spellcheck(self, prefix, key, diff, curr) ==
    IF diff > MaxDiff THEN {}
    ELSE IF key = <<>>
    THEN IF HasEND(self, curr) THEN {<<diff, prefix>>} ELSE {}
    ELSE LET expect == key[1]
             transposed ==
                 IF Len(key) > 1
                    /\ key[2] \in Letters(self, curr)
                    /\ expect \in Letters(self, Append(curr, key[2]))
                 THEN _spellcheck(self, prefix \o <<key[2], expect>>,
                                  SubSeq(key, 3, Len(key)), diff + 1,
                                  curr \o <<key[2], expect>>)
                 ELSE {}
             deleted == _spellcheck(self, prefix, Tail(key), diff + 1, curr)
             child(ch) ==
                 _spellcheck(self, Append(prefix, ch), key, diff + 1,
                             Append(curr, ch))
                 \cup _spellcheck(self, Append(prefix, ch), Tail(key),
                                  IF ch = expect THEN diff
                                  ELSE IF IsVariant(expect, ch) THEN diff + 1
                                  ELSE diff + 2,
                                  Append(curr, ch))
         IN  transposed \cup deleted
                \cup UNION {child(ch) : ch \in Letters(self, curr)}

\* lexicographic order of words by code point, and Python's order of tuples
RECURSIVE WordLess(_, _)
WordLess(a, b) ==
    IF b = <<>> THEN FALSE
    ELSE IF a = <<>> THEN TRUE
    ELSE IF Head(a) # Head(b) THEN Head(a) < Head(b)
    ELSE WordLess(Tail(a), Tail(b))

PairLess(p, q) == p[1] < q[1] \/ (p[1] = q[1] /\ WordLess(p[2], q[2]))

\* list.sort() of a set of (diff, word) tuples
RECURSIVE SortPairs(_)
SortPairs(S) ==
    IF S = {} THEN <<>>
    ELSE LET least == CHOOSE p \in S : \A q \in S \ {p} : PairLess(p, q)
         IN  <<least>> \o SortPairs(S \ {least})

\* lines 478-483: the least diff of every word yielded, sorted
Possible(yielded) ==
    LET found == {p[2] : p \in yielded}
        maybe(w) == Min({p[1] : p \in {q \in yielded : q[2] = w}})
    IN  SortPairs({<<maybe(w), w>> : w \in found})

prefix(self, word) ==
    /\ self \in DOMAIN words
    /\ ret' = Answered("prefix", self, word, FALSE,
                       _keys(self, word, _entry(self, word)))
    /\ UNCHANGED <<words, size, ACCENTED, inserted>>

spellcheck(self, word) ==
    /\ self \in DOMAIN words
    /\ ret' = Answered("spellcheck", self, word, FALSE,
                       Possible(_spellcheck(self, <<>>, word, 0, <<>>)))
    /\ UNCHANGED <<words, size, ACCENTED, inserted>>

\* lines 453-458, the same statements as spellcheck
distance(self, word) ==
    /\ self \in DOMAIN words
    /\ ret' = Answered("distance", self, word, FALSE,
                       Possible(_spellcheck(self, <<>>, word, 0, <<>>)))
    /\ UNCHANGED <<words, size, ACCENTED, inserted>>

(***************************************************************************)
(* Inputs and specifications.                                              *)
(***************************************************************************)
MaxNodes == 2

\* the words of at most n characters over chars
WordsOver(chars, n) == UNION {[1..k -> chars] : k \in 0..n}

\* an insert that keeps the tree of a store within n dicts below the root
Fits(self, word, n) ==
    Cardinality(words[self].nodes \cup Path(normalize(word))) <= n + 1

\* e and the combining acute accent; with e-acute, words that are and are
\* not in normal form
StoreWords == WordsOver({101, 769}, MaxNodes)
LookupWords == WordsOver({101, 233, 769}, MaxNodes)

\* '1' and e-acute stored; '?', '1', 'e' and E-acute in the patterns
SearchWords == WordsOver({49, 233}, MaxNodes)
Patterns == WordsOver({63, 49, 101, 201}, MaxNodes)

\* '1', 'e' and e-acute
FuzzyWords == WordsOver({49, 101, 233}, MaxNodes)

\* the doctest of spellcheck: hello, help, hell, shell, shall
hello == <<104, 101, 108, 108, 111>>
ScenarioWords ==
    {hello, <<104, 101, 108, 112>>, <<104, 101, 108, 108>>,
     <<115, 104, 101, 108, 108>>, <<115, 104, 97, 108, 108>>}

Init ==
    /\ words = (1 :> EmptyTrie)
    /\ size = (1 :> 0)
    /\ ACCENTED = [b \in {} |-> {}]
    /\ inserted = (1 :> {})
    /\ ret = Returned("init", 1, FALSE, "None")

\* inserts and removals of one store
Next ==
    \/ \E w \in StoreWords : Fits(1, w, MaxNodes) /\ __iadd__(1, w)
    \/ \E w \in StoreWords, v \in Values :
            Fits(1, w, MaxNodes) /\ __setitem__(1, w, v)
    \/ \E w \in StoreWords : __isub__(1, w)
    \/ \E w \in StoreWords : __delitem__(1, w)
    \/ __len__(1)

Spec == Init /\ [][Next]_vars

\* inserts and lookups
LookupNext ==
    \/ \E w \in LookupWords : Fits(1, w, MaxNodes) /\ __iadd__(1, w)
    \/ \E w \in LookupWords, v \in Values :
            Fits(1, w, MaxNodes) /\ __setitem__(1, w, v)
    \/ \E w \in LookupWords : __contains__(1, w)
    \/ \E w \in LookupWords : __getitem__(1, w)
    \/ \E w \in LookupWords : get(1, w, "missing")

LookupSpec == Init /\ [][LookupNext]_vars

\* a word list loaded into an empty trie, and enumerated
LoadNext ==
    \/ \E w \in LookupWords : Fits(1, w, MaxNodes) /\ load(1, w)
    \/ __iter__(1)
    \/ \E p \in LookupWords : prefix(1, p)

LoadSpec == Init /\ [][LoadNext]_vars

\* a vocabulary and wildcard searches of it
SearchNext ==
    \/ \E w \in SearchWords : Fits(1, w, MaxNodes) /\ __iadd__(1, w)
    \/ \E w \in SearchWords : __isub__(1, w)
    \/ \E key \in Patterns : search(1, key)

SearchSpec == Init /\ [][SearchNext]_vars

\* a vocabulary and fuzzy matches against it
FuzzyNext ==
    \/ \E w \in FuzzyWords : Fits(1, w, MaxNodes) /\ __iadd__(1, w)
    \/ \E q \in FuzzyWords : spellcheck(1, q)

FuzzySpec == Init /\ [][FuzzyNext]_vars

\* the doctest's trie
ScenarioNext ==
    \/ \E w \in ScenarioWords : __iadd__(1, w)
    \/ \E q \in ScenarioWords : spellcheck(1, q)
    \/ \E q \in ScenarioWords : distance(1, q)

ScenarioSpec == Init /\ [][ScenarioNext]_vars

\* two stores
StoresNext ==
    \/ \E t \in Stores : __init__(t)
    \/ \E t \in DOMAIN words, w \in StoreWords :
            Fits(t, w, MaxNodes) /\ __iadd__(t, w)
    \/ \E t \in DOMAIN words, w \in StoreWords : __isub__(t, w)

StoresSpec == Init /\ [][StoresNext]_vars

(***************************************************************************)
(* The claims.                                                             *)
(***************************************************************************)
\* the words a store holds: the paths from the root to a dict with END
Stored(self) ==
    {p \in words[self].nodes :
        _entry(self, p) = p /\ p \in DOMAIN words[self].END}

\* the step is an insert, or a removal, of the word w
InsertOf(self, w) ==
    /\ ret'.op \in Inserts
    /\ __iadd__(self, w) \/ \E v \in Values : __setitem__(self, w, v)

RemovalOf(self, w) ==
    /\ ret'.op \in Removals
    /\ __isub__(self, w) \/ __delitem__(self, w)

\* C1: in every state reached by inserts and removals, failed ones included,
\* len() is the number of dicts reachable from the root that hold END;
\* inserting a word that already holds the marker leaves len() as it is, a
\* removal that finds the marker lowers len() by exactly 1, and one that
\* does not find it leaves len() as it is.
C1_CountIsMarkers ==
    /\ [](\A t \in DOMAIN words : size[t] = Cardinality(Stored(t)))
    /\ [][LET held == Stored(1)
          IN  /\ ret'.op \in Inserts =>
                    \A w \in {x \in StoreWords : normalize(x) \in held} :
                        InsertOf(1, w) => size' = size
              /\ ret'.op \in Removals =>
                    \A w \in StoreWords :
                        RemovalOf(1, w) =>
                            IF w \in held THEN size'[1] = size[1] - 1
                                          ELSE size' = size]_vars

\* a second `del` of a word has just raised; the word's branch is still in
\* the tree without a marker, and another word is counted
C1_Witness ==
    /\ ret.op = "delitem" /\ ret.raised
    /\ size[1] = 1
    /\ \E p \in words[1].nodes : p # <<>> /\ ~HasEND(1, p)

\* C2: immediately after insert(w, v), contains(w) is true and get(w)
\* returns v, for the very string w that was inserted.
C2_InsertThenLookup ==
    [][\A w \in LookupWords : \A v \in Values :
          (/\ ret'.op \in Inserts
           /\ __setitem__(1, w, v) \/ (v = "True" /\ __iadd__(1, w)))
              => (Contains(1, w) /\ GetItem(1, w) = [raised |-> FALSE, out |-> v])']_vars

\* C3: a removal (`-=` or `del`) of a word whose marker is absent signals
\* not-found and leaves len() and the tree as they are.
C3_RemovalSignals ==
    [][\A w \in StoreWords :
          (RemovalOf(1, w) /\ ~Contains(1, w))
              => (ret'.raised /\ size' = size /\ words' = words)]_vars

\* The cost table of the fuzzy matcher: deletion 1, insertion 1, adjacent
\* transposition 1, the same character 0, a case swap or recorded accent
\* variant 1, any other substitution 2; the least total cost of turning q
\* into w.
RECURSIVE EditCost(_, _)
EditCost(q, w) ==
    IF q = <<>> THEN Len(w)
    ELSE IF w = <<>> THEN Len(q)
    ELSE LET substituted ==
                 (IF q[1] = w[1] THEN 0
                  ELSE IF IsVariant(q[1], w[1]) THEN 1 ELSE 2)
                     + EditCost(Tail(q), Tail(w))
             transposed ==
                 IF Len(q) > 1 /\ Len(w) > 1 /\ q[1] = w[2] /\ q[2] = w[1]
                 THEN {1 + EditCost(SubSeq(q, 3, Len(q)), SubSeq(w, 3, Len(w)))}
                 ELSE {}
         IN  Min({1 + EditCost(Tail(q), w), 1 + EditCost(q, Tail(w)),
                  substituted} \cup transposed)

\* s lists the pairs of S in increasing order of (distance, word)
ListsInOrder(s, S) ==
    /\ {s[i] : i \in 1..Len(s)} = S
    /\ \A i \in 1..Len(s) - 1 : PairLess(s[i], s[i + 1])

\* C4: spellcheck(q) returns exactly the stored words whose least edit cost
\* from q is at most 3, each once with that cost, by distance and then word.
C4_LeastCost ==
    ret.op = "spellcheck" =>
        ListsInOrder(ret.out,
                     {<<EditCost(ret.word, w), w>> :
                         w \in {x \in Stored(1) : EditCost(ret.word, x) <= MaxDiff}})

\* C5: with hello, help, hell, shell and shall stored, spellcheck("hello")
\* is hello 0, hell 1, help 2, shell 2, shall 3.
C5_Doctest ==
    (Stored(1) = ScenarioWords /\ ret.op = "spellcheck" /\ ret.word = hello)
        => ret.out = << <<0, hello>>, <<1, <<104, 101, 108, 108>> >>,
                        <<2, <<104, 101, 108, 112>> >>,
                        <<2, <<115, 104, 101, 108, 108>> >>,
                        <<3, <<115, 104, 97, 108, 108>> >> >>

\* s lists the words of S, each once, in strictly increasing order
Enumerates(s, S) ==
    /\ {s[i] : i \in 1..Len(s)} = S
    /\ \A i \in 1..Len(s) - 1 : WordLess(s[i], s[i + 1])

StartsWith(w, p) == Len(p) <= Len(w) /\ SubSeq(w, 1, Len(p)) = p

\* C6 as stated: iterating a trie loaded from a word list yields exactly the
\* words of the list, each once, in increasing order; prefix(p) yields the
\* stored words that start with p.
C6_YieldsInserted ==
    /\ ret.op = "iter" => Enumerates(ret.out, inserted[1])
    /\ ret.op = "prefix" =>
          Enumerates(ret.out, {w \in Stored(1) : StartsWith(w, ret.word)})

\* C6, amended: iterating yields exactly the normalized forms of the words
\* of the list, each once, in strictly increasing code point order;
\* prefix(p) yields, in that order, the stored words that start with p.
C6_YieldsNormalized ==
    /\ ret.op = "iter" =>
          Enumerates(ret.out, {normalize(w) : w \in inserted[1]})
    /\ ret.op = "prefix" =>
          Enumerates(ret.out, {w \in {normalize(x) : x \in inserted[1]} :
                                  StartsWith(w, ret.word)})

\* a list with a word that is not in normal form and another word has been
\* loaded and enumerated
C6_Witness ==
    /\ ret.op = "iter" /\ Len(ret.out) = 2
    /\ \E w \in inserted[1] : normalize(w) # w

\* C7: a pattern of L sentinels finds exactly the stored words of length L.
C7_Sentinels ==
    (ret.op = "search" /\ \A i \in 1..Len(ret.word) : ret.word[i] = 63)
        => /\ {ret.out[i] : i \in 1..Len(ret.out)}
                = {w \in Stored(1) : Len(w) = Len(ret.word)}
           /\ Len(ret.out) = Cardinality({w \in Stored(1) : Len(w) = Len(ret.word)})

\* `?` has found the two stored words of one character, and not the stored
\* empty word
C7_Witness ==
    /\ ret.op = "search" /\ ret.word = <<63>>
    /\ Len(ret.out) = 2
    /\ <<>> \in Stored(1)

\* the distances a spellcheck result gives for a word (none: not reported)
Reported(out, w) == {out[i][1] : i \in {j \in 1..Len(out) : out[j][2] = w}}

\* C8: for stored words u and v of equal length, the distance spellcheck(u)
\* reports for v is the distance spellcheck(v) reports for u.
C8_Symmetric ==
    (ret.op = "spellcheck" /\ ret.word \in Stored(1)) =>
        \A v \in Stored(1) :
            Len(v) = Len(ret.word) =>
                Reported(ret.out, v)
                    = Reported(Possible(_spellcheck(1, <<>>, v, 0, <<>>)), ret.word)

\* C9: an insert into one store leaves the accent index of every other
\* store as it is, and a store that is created starts with an empty one.
C9_OwnAccentIndex ==
    [][/\ \A s \in DOMAIN words : \A w \in StoreWords :
             (ret'.op = "iadd" /\ __iadd__(s, w)) =>
                 \A t \in DOMAIN words \ {s} : AccentIndex(t)' = AccentIndex(t)
       /\ \A t \in Stores :
             (ret'.op = "init" /\ __init__(t)) => DOMAIN AccentIndex(t)' = {}]_vars

\* C10: search yields no word twice.
C10_NoDuplicates ==
    ret.op = "search" =>
        \A i, j \in 1..Len(ret.out) : i # j => ret.out[i] # ret.out[j]

====
